---- MODULE Spec2Model ----
(***************************************************************************)
(* MathJax mml3 extension: the Mml3 filter object, the Mml3Handler         *)
(* document class, and the XSLT stylesheet Mml3.XSLT that rewrites         *)
(* right-to-left markup and elementary-math markup (mstack, mlongdiv) into *)
(* base presentation MathML.                                               *)
(*                                                                         *)
(* Trees.  A node is a record [tag, attrs, kids, text].  An element has    *)
(* text = <<>>; a text node has tag = "#text" and its characters, one      *)
(* one-character string each, in text.  attrs is a set of <<name, value>>  *)
(* pairs, at most one per name.  Elements are in the MathML namespace      *)
(* (prefix m: of the stylesheet) except "div" and the tag NoNsMtd.         *)
(***************************************************************************)
EXTENDS Integers, Sequences, FiniteSets, TLC

\* ------------------------------------------------------------ tree values

E(tag, attrs, kids) == [tag |-> tag, attrs |-> attrs, kids |-> kids, text |-> <<>>]
T(chars) == [tag |-> "#text", attrs |-> {}, kids |-> <<>>, text |-> chars]

IsText(n) == n.tag = "#text"
IsElem(n) == n.tag # "#text"

\* the literal result element <mtd> of lines 748, 762, 776, 788: the stylesheet
\* declares no default namespace, so it is an mtd in no namespace
NoNsMtd == "{}mtd"

\* elements that are not in the MathML namespace: m:* does not match them
InMathML(n) == IsElem(n) /\ n.tag \notin {"div", NoNsMtd}

HasAttr(n, a) == \E p \in n.attrs : p[1] = a
\* string(@a): the value, or "" for an absent attribute
Attr(n, a) == IF HasAttr(n, a) THEN (CHOOSE p \in n.attrs : p[1] = a)[2] ELSE ""
\* xsl:attribute / copy-of @a onto an element under construction: a later
\* attribute of the same name replaces the earlier one
SetAttr(attrs, a, v) == {p \in attrs : p[1] # a} \cup {<<a, v>>}
\* copy-of select="@a"
CopyAttr(n, a) == {p \in n.attrs : p[1] = a}

RECURSIVE Cat(_)
\* concatenation of a sequence of node sequences
Cat(ss) == IF ss = <<>> THEN <<>> ELSE Head(ss) \o Cat(Tail(ss))

RECURSIVE MergeText(_)
\* a result tree never holds two adjacent text nodes, nor an empty one
MergeText(s) ==
  IF s = <<>> THEN <<>>
  ELSE LET r == MergeText(Tail(s))
           h == Head(s)
       IN IF IsText(h) /\ h.text = <<>> THEN r
          ELSE IF IsText(h) /\ r # <<>> /\ IsText(Head(r))
               THEN <<T(h.text \o Head(r).text)>> \o Tail(r)
               ELSE <<h>> \o r

\* a constructed element: attributes and merged content
El(tag, attrs, kids) == E(tag, attrs, MergeText(kids))

\* select="*": the element children
Elems(n) == SelectSeq(n.kids, IsElem)
\* select="*[i]": a sequence of zero or one node
Nth(s, i) == IF i \in 1..Len(s) THEN <<s[i]>> ELSE <<>>
Rev(s) == [i \in 1..Len(s) |-> s[Len(s) + 1 - i]]

RECURSIVE StringValue(_)
\* the XPath string value of a node: its descendant text, in document order
StringValue(n) ==
  IF IsText(n) THEN n.text
  ELSE Cat([i \in 1..Len(n.kids) |-> StringValue(n.kids[i])])

RECURSIVE SumSeq(_)
SumSeq(s) == IF s = <<>> THEN 0 ELSE Head(s) + SumSeq(Tail(s))

RECURSIVE NodeCount(_)
\* count(descendant-or-self::node()) of a node
NodeCount(n) == 1 + SumSeq([i \in 1..Len(n.kids) |-> NodeCount(n.kids[i])])

RECURSIVE ElemCount(_)
\* count(descendant-or-self::*) of a node
ElemCount(n) ==
  IF IsText(n) THEN 0
  ELSE 1 + SumSeq([i \in 1..Len(n.kids) |-> ElemCount(n.kids[i])])

\* count(//node()) and count(//*) of a document whose root has these children
DocNodes(s) == SumSeq([i \in 1..Len(s) |-> NodeCount(s[i])])
DocElems(s) == SumSeq([i \in 1..Len(s) |-> ElemCount(s[i])])

\* --------------------------------------------------------- XPath numbers
\* XPath numbers are integers here, or NaN.  MaxNum bounds the integers an
\* attribute value can spell.
MaxNum == 12
NaN == 0 - (MaxNum + 100)

\* number(s) of a string: the integer it spells, else NaN
Num(s) ==
  IF \E i \in (0 - MaxNum)..MaxNum : ToString(i) = s
  THEN CHOOSE i \in (0 - MaxNum)..MaxNum : ToString(i) = s
  ELSE NaN
\* string(x) of a number
Str(x) == IF x = NaN THEN "NaN" ELSE ToString(x)
Plus(a, b) == IF a = NaN \/ b = NaN THEN NaN ELSE a + b
Minus(a, b) == IF a = NaN \/ b = NaN THEN NaN ELSE a - b
\* number(sum(@a)): 0 for an absent attribute
SumAttr(n, a) == IF HasAttr(n, a) THEN Num(Attr(n, a)) ELSE 0
\* round(x div 2): round half up
RoundHalf(x) == IF x = NaN THEN NaN ELSE (x + 1) \div 2
\* the number of nodes of (//node())[position() <= x] in a document of
\* cap nodes: the comparison with NaN is false
LoopCount(x, cap) ==
  IF x = NaN \/ x < 0 THEN 0 ELSE IF x <= cap THEN x ELSE cap

\* ---------------------------------------------------------- XPath strings
RECURSIVE TrimLeft(_)
TrimLeft(cs) == IF cs # <<>> /\ Head(cs) = " " THEN TrimLeft(Tail(cs)) ELSE cs

RECURSIVE Collapse(_)
\* a run of spaces becomes one space
Collapse(cs) ==
  IF cs = <<>> THEN <<>>
  ELSE IF Head(cs) = " " THEN <<" ">> \o Collapse(TrimLeft(cs))
       ELSE <<Head(cs)>> \o Collapse(Tail(cs))

\* normalize-space(s)
NormalizeSpace(cs) ==
  LET c == Collapse(TrimLeft(cs))
  IN IF c # <<>> /\ c[Len(c)] = " " THEN SubSeq(c, 1, Len(c) - 1) ELSE c

\* contains(s, d) for a one-character d
Contains(cs, d) == \E i \in 1..Len(cs) : cs[i] = d
\* string-length(substring-before(s, d)) for a one-character d
LenBefore(cs, d) ==
  IF Contains(cs, d) THEN (CHOOSE i \in 1..Len(cs) :
                              cs[i] = d /\ \A j \in 1..(i - 1) : cs[j] # d) - 1
  ELSE 0

\* ---------------------------------------------------------------- context
\* What a template reads of the ancestors and the document of its context
\* node: nn = count(//node()), ne = count(//*), align = string(ancestor::
\* m:mstack[1]/@stackalign), dp = string(ancestor::*[@decimalpoint][1]/
\* @decimalpoint).
Ctx(nn, ne, align, dp) == [nn |-> nn, ne |-> ne, align |-> align, dp |-> dp]

\* the context of the children of element n, given the context of n
Down(ctx, n) ==
  [ctx EXCEPT !.align = IF n.tag = "mstack" THEN Attr(n, "stackalign") ELSE @,
              !.dp = IF HasAttr(n, "decimalpoint") THEN Attr(n, "decimalpoint") ELSE @]

\* ------------------------------------------------------------ mode "rtl"
RECURSIVE Apply(_, _), ApplyAll(_, _), Rtl(_, _), RtlAll(_, _), mstack(_, _),
          mlongdiv(_, _), mstack1(_, _, _), ml(_, _)

\* the fence rules without the templates @open[.=')'] and @close[.=')']
MirrorFence_noCloseParen(v) ==
  CASE v = "(" -> ")"
    [] v = "[" -> "]"  [] v = "]" -> "["
    [] v = "{" -> "}"  [] v = "}" -> "{"
    [] OTHER -> v

\* the bracket a listed fence value is replaced by (templates @open[.='(']
\* ... @close[.='}']); any other value is kept (templates @open, @close)
MirrorFence(v) ==
  CASE v = "(" -> ")"  [] v = ")" -> "("
    [] v = "[" -> "]"  [] v = "]" -> "["
    [] v = "{" -> "}"  [] v = "}" -> "{"
    [] OTHER -> v

\* apply-templates select="@*" mode="rtl": the attributes created on the
\* element under construction.  @open makes close, @close makes open,
\* @notation[.='radical'] makes notation="top right", and template @* copies
\* the attribute and then sets dir="ltr".
RtlAttr(p) ==
  CASE p[1] = "open" -> {<<"close", MirrorFence(p[2])>>}
    [] p[1] = "close" -> {<<"open", MirrorFence(p[2])>>}
    [] p[1] = "notation" /\ p[2] = "radical" -> {<<"notation", "top right">>}
    [] OTHER -> {p, <<"dir", "ltr">>}

RtlAttrs(n) ==
  LET made == UNION {RtlAttr(p) : p \in n.attrs}
  IN {q \in made : q[1] = "dir" => q[2] = "ltr"}

\* attributes added to an element that already has some: the later one wins
AddAttrs(attrs, more) ==
  {p \in attrs : ~ \E q \in more : q[1] = p[1]} \cup more

\* templates text()[.='('] ... text()[.='&#x220b;'] of mode rtl, and the
\* built-in rule that copies any other text
RtlText(cs) ==
  CASE cs = <<"(">> -> <<")">>  [] cs = <<")">> -> <<"(">>
    [] cs = <<"{">> -> <<"}">>  [] cs = <<"}">> -> <<"{">>
    [] cs = <<"<">> -> <<">">>  [] cs = <<">">> -> <<"<">>
    [] cs = <<"&#x2208;">> -> <<"&#x220b;">>
    [] cs = <<"&#x220b;">> -> <<"&#x2208;">>
    [] OTHER -> cs

\* template match="*" mode="rtl": children in descending position, a space
\* before each
RtlGeneric(n, ctx) ==
  <<El(n.tag, RtlAttrs(n),
       Cat([i \in 1..Len(n.kids) |->
              <<T(<<" ">>)>> \o Rtl(n.kids[Len(n.kids) + 1 - i], Down(ctx, n))]))>>

\* template match="m:mfrac[@bevelled='true']" mode="rtl"
RtlBevelled(n, ctx) ==
  <<El("mrow", {},
       <<El("msub", {}, <<E("mi", {}, <<>>)>> \o RtlAll(Nth(Elems(n), 2), Down(ctx, n))),
         E("mo", {}, <<T(<<"\\">>)>>),
         El("msup", {}, <<E("mi", {}, <<>>)>> \o RtlAll(Nth(Elems(n), 1), Down(ctx, n)))>>)>>

\* template match="m:mfrac" mode="rtl": select="@*|*"
RtlMfrac(n, ctx) ==
  <<El(n.tag, RtlAttrs(n), RtlAll(Elems(n), Down(ctx, n)))>>

\* template match="m:mroot" mode="rtl"
RtlMroot(n, ctx) ==
  <<El("msup", {},
       <<El("menclose", AddAttrs({<<"notation", "top right">>}, RtlAttrs(n)),
            RtlAll(Nth(Elems(n), 1), Down(ctx, n)))>>
       \o RtlAll(Nth(Elems(n), 2), Down(ctx, n)))>>

\* template match="m:msqrt" mode="rtl": select="@*|*[1]"
RtlMsqrt(n, ctx) ==
  <<El("menclose", AddAttrs({<<"notation", "top right">>}, RtlAttrs(n)),
       RtlAll(Nth(Elems(n), 1), Down(ctx, n)))>>

\* template match="m:mtable|m:munder|m:mover|m:munderover" mode="rtl"
RtlTable(n, ctx) ==
  <<El(n.tag, RtlAttrs(n), RtlAll(n.kids, Down(ctx, n)))>>

\* template match="m:msup" mode="rtl"
RtlMsup(n, ctx) ==
  <<El("mmultiscripts", {},
       RtlAll(Nth(Elems(n), 1), Down(ctx, n))
       \o <<E("mprescripts", {}, <<>>), E("none", {}, <<>>)>>
       \o RtlAll(Nth(Elems(n), 2), Down(ctx, n)))>>

\* template match="m:msub" mode="rtl"
RtlMsub(n, ctx) ==
  <<El("mmultiscripts", {},
       RtlAll(Nth(Elems(n), 1), Down(ctx, n))
       \o <<E("mprescripts", {}, <<>>)>>
       \o RtlAll(Nth(Elems(n), 2), Down(ctx, n))
       \o <<E("none", {}, <<>>)>>)>>

\* template match="m:msubsup" mode="rtl"
RtlMsubsup(n, ctx) ==
  <<El("mmultiscripts", {},
       RtlAll(Nth(Elems(n), 1), Down(ctx, n))
       \o <<E("mprescripts", {}, <<>>)>>
       \o RtlAll(Nth(Elems(n), 2), Down(ctx, n))
       \o RtlAll(Nth(Elems(n), 3), Down(ctx, n)))>>

\* for-each over the nodes of es at the positions in sel, in descending
\* position, each followed by its following-sibling::*[1]
RtlPairs(es, sel, ctx) ==
  LET idx == SelectSeq([i \in 1..Len(es) |-> Len(es) + 1 - i], LAMBDA i : i \in sel)
  IN Cat([k \in 1..Len(idx) |->
            RtlAll(Nth(es, idx[k]), ctx) \o RtlAll(Nth(es, idx[k] + 1), ctx)])

\* the positions among the element children of the m:mprescripts children
MprescriptsAt(es) == {i \in 1..Len(es) : es[i].tag = "mprescripts"}

\* template match="m:mmultiscripts" mode="rtl" priority="2".  The first
\* for-each selects, for each mprescripts, its following siblings at odd
\* position; the second its preceding siblings but the first child, at even
\* position counted backwards from the mprescripts.
RtlMmultiscripts(n, ctx) ==
  LET es == Elems(n)
      ps == MprescriptsAt(es)
      after == {i \in 1..Len(es) : \E m \in ps : i > m /\ (i - m) % 2 = 1}
      before == {i \in 2..Len(es) : \E m \in ps : i < m /\ (m - i) % 2 = 0}
  IN <<El("mmultiscripts", {},
          RtlAll(Nth(es, 1), Down(ctx, n))
          \o RtlPairs(es, after, Down(ctx, n))
          \o <<E("mprescripts", {}, <<>>)>>
          \o RtlPairs(es, before, Down(ctx, n)))>>

\* template match="m:mmultiscripts[not(m:mprescripts)]" mode="rtl" priority="3"
RtlMmultiscriptsNoPre(n, ctx) ==
  LET es == Elems(n)
  IN <<El("mmultiscripts", {},
          RtlAll(Nth(es, 1), Down(ctx, n))
          \o <<E("mprescripts", {}, <<>>)>>
          \o RtlPairs(es, {i \in 1..Len(es) : i % 2 = 0}, Down(ctx, n)))>>

\* template match="m:mlongdiv|m:mstack" mode="rtl"
RtlStack(n, ctx) ==
  <<El("mrow", {<<"dir", "ltr">>}, Apply(n, ctx))>>

\* template match="m:menclose[@notation='madruwb']" mode="rtl"
RtlMadruwb(n, ctx) ==
  <<El("menclose", {<<"notation", "bottom right">>}, RtlAll(n.kids, Down(ctx, n)))>>

\* apply-templates mode="rtl" to one node: the matching template of the
\* highest priority (explicit priorities 3 and 2, then the default
\* priorities 0.5 of a pattern with a predicate, 0 of a name, -0.5 of "*")
Rtl(n, ctx) ==
  CASE IsText(n) -> <<T(RtlText(n.text))>>
    [] ~ IsText(n) /\ ~ InMathML(n) -> RtlGeneric(n, ctx)
    [] n.tag = "mmultiscripts" /\ MprescriptsAt(Elems(n)) = {} -> RtlMmultiscriptsNoPre(n, ctx)
    [] n.tag = "mmultiscripts" /\ MprescriptsAt(Elems(n)) # {} -> RtlMmultiscripts(n, ctx)
    [] n.tag = "msup" -> RtlMsup(n, ctx)
    [] n.tag = "msub" -> RtlMsub(n, ctx)
    [] n.tag = "msubsup" -> RtlMsubsup(n, ctx)
    [] n.tag \in {"mtable", "munder", "mover", "munderover"} -> RtlTable(n, ctx)
    [] n.tag = "mfrac" /\ Attr(n, "bevelled") = "true" -> RtlBevelled(n, ctx)
    [] n.tag = "mfrac" /\ Attr(n, "bevelled") # "true" -> RtlMfrac(n, ctx)
    [] n.tag = "menclose" /\ Attr(n, "notation") = "madruwb" -> RtlMadruwb(n, ctx)
    [] n.tag = "mroot" -> RtlMroot(n, ctx)
    [] n.tag = "msqrt" -> RtlMsqrt(n, ctx)
    [] n.tag \in {"mlongdiv", "mstack"} -> RtlStack(n, ctx)
    [] OTHER -> RtlGeneric(n, ctx)

\* apply-templates mode="rtl" to a node list, in its order
RtlAll(s, ctx) == Cat([i \in 1..Len(s) |-> Rtl(s[i], ctx)])

\* -------------------------------------------------------- the default mode
\* the generic copy without its copy-of select="@*"
Copy_noAttributes(n, ctx) == <<El(n.tag, {}, ApplyAll(n.kids, Down(ctx, n)))>>

\* template match="*": copy, copy-of @*, apply-templates
Copy(n, ctx) == <<El(n.tag, n.attrs, ApplyAll(n.kids, Down(ctx, n)))>>

\* apply-templates to one node in the default mode: m:mstack and m:mlongdiv
\* (priority 11), m:*[@dir='rtl'] (priority 10), "*", and the built-in rule
\* that copies text
Apply(n, ctx) ==
  CASE IsText(n) -> <<n>>
    [] n.tag = "mstack" -> mstack(n, ctx)
    [] n.tag = "mlongdiv" -> mlongdiv(n, ctx)
    [] InMathML(n) /\ n.tag \notin {"mstack", "mlongdiv"} /\ Attr(n, "dir") = "rtl" -> Rtl(n, ctx)
    [] OTHER -> Copy(n, ctx)

ApplyAll(s, ctx) == Cat([i \in 1..Len(s) |-> Apply(s[i], ctx)])

\* ------------------------------------------------------- mode "mstack1"
\* string($align): the stackalign of the nearest m:mstack, "decimalpoint"
\* when it has none
Align(ctx) == IF ctx.align = "" THEN "decimalpoint" ELSE ctx.align
\* string($dp): the nearest decimalpoint attribute, "." when there is none
Dp(ctx) == IF ctx.dp = "" THEN "." ELSE ctx.dp

\* template mode="mstack1" match="*".  The test ancestor::mstack[1]/
\* @stackalign='left' names an mstack in no namespace, which no ancestor is:
\* l is always 1 + $p.
mstack1_any(n, p, ctx) ==
  <<El("mtr", {<<"l", Str(Plus(1, p))>>}, <<El("mtd", {}, Apply(n, ctx))>>)>>

\* the cells of a row of $row: c:node-set($row)/m:mtr/*
RowCells(row) ==
  Cat([i \in 1..Len(row) |->
         IF row[i].tag = "mtr" THEN Elems(row[i]) ELSE <<>>])

\* whether an m:mtr has an m:mtd with an m:mn child
HasMnCell(r) ==
  r.tag = "mtr" /\ \E i \in 1..Len(r.kids) :
     r.kids[i].tag = "mtd" /\ \E j \in 1..Len(r.kids[i].kids) : r.kids[i].kids[j].tag = "mn"

\* variable l1 of template mode="mstack1" match="m:msrow", as a string
msrow_l1(n, row, ctx) ==
  LET rs == SelectSeq(row, IsElem)
      hasMn == \E i \in 1..Len(n.kids) : n.kids[i].tag = "mn"
      firsts == {i \in 1..Len(rs) : HasMnCell(rs[i]) /\ \A j \in 1..(i - 1) : ~ HasMnCell(rs[j])}
  IN CASE Align(ctx) = "decimalpoint" /\ hasMn ->
            IF firsts = {} THEN ""
            ELSE LET i == CHOOSE i \in firsts : TRUE
                 IN Str(Plus(SumAttr(rs[i], "l"),
                             Cardinality({j \in 1..(i - 1) : HasAttr(rs[j], "l")})))
       [] Align(ctx) \in {"right", "decimalpoint"} /\ ~ (Align(ctx) = "decimalpoint" /\ hasMn) ->
            Str(Len(RowCells(row)))
       [] OTHER -> "0"

\* template mode="mstack1" match="m:msrow"
mstack1_msrow(n, p, ctx) ==
  LET es == Elems(n)
      row == MergeText(Cat([i \in 1..Len(es) |-> mstack1(es[i], 0, Down(ctx, n))]))
      l1 == msrow_l1(n, row, ctx)
  IN <<T(<<"\n">>),
       El("mtr", {<<"class", "msrow">>,
                  <<"l", Str(Plus(Plus(Num(l1), SumAttr(n, "position")), p))>>},
          RowCells(row))>>

\* the l attribute of template mode="mstack1" match="m:mn": the literal "$p"
\* of line 528 unless one of the xsl:when branches replaces it
mn_l(mn, p, ctx) ==
  CASE Align(ctx) = "right" \/ (Align(ctx) = "decimalpoint" /\ ~ Contains(mn, Dp(ctx))) ->
         Str(Plus(p, Len(mn)))
    [] Align(ctx) = "center" -> Str(RoundHalf(Plus(p, Len(mn))))
    [] Align(ctx) = "decimalpoint" /\ Contains(mn, Dp(ctx)) ->
         Str(Plus(p, LenBefore(mn, Dp(ctx))))
    [] OTHER -> "$p"

\* the m:mtd of one digit
mn_cell(digit) ==
  El("mtd", {}, (IF digit = "." \/ digit = ","
                 THEN <<E("mspace", {<<"width", ".15em">>}, <<>>)>> ELSE <<>>)
                \o <<E("mn", {}, <<T(<<digit>>)>>)>>)

\* template mode="mstack1" match="m:mn": one cell for each of the first $len
\* nodes of the document
mstack1_mn(n, p, ctx) ==
  LET mn == NormalizeSpace(StringValue(n))
  IN <<El("mtr", {<<"l", mn_l(mn, p, ctx)>>},
          [pos \in 1..LoopCount(Len(mn), ctx.nn) |-> mn_cell(mn[pos])])>>

\* template match="m:msgroup" mode="mstack1"
mstack1_msgroup(n, p, ctx) ==
  LET es == Elems(n)
      s == SumAttr(n, "shift")
      thisp == SumAttr(n, "position")
      shifted(i) == IF s = NaN THEN NaN ELSE (i - 1) * s
  IN Cat([i \in 1..Len(es) |->
            mstack1(es[i], Plus(Plus(p, thisp), shifted(i)), Down(ctx, n))])

\* not(string(@length)) or @length=0
NoLength(n) == Attr(n, "length") = "" \/ Num(Attr(n, "length")) = 0

\* the l attribute of a line row if the declared length were added under
\* every alignment
msline_l_everyAlignment(n, p, ctx) ==
  IF NoLength(n) THEN "*" ELSE Str(Plus(p, Num(Attr(n, "length"))))

\* the l attribute of template match="m:msline" mode="mstack1"
msline_l(n, p, ctx) ==
  CASE NoLength(n) -> "*"
    [] ~ NoLength(n) /\ Align(ctx) \in {"right", "decimalpoint"} ->
         Str(Plus(p, Num(Attr(n, "length"))))
    [] OTHER -> Str(p)

\* variable w of template match="m:msline" mode="mstack1"
msline_w(n) ==
  CASE Attr(n, "mslinethickness") = "thin" -> "0.1em"
    [] Attr(n, "mslinethickness") = "medium" -> "0.15em"
    [] Attr(n, "mslinethickness") = "thick" -> "0.2em"
    [] HasAttr(n, "mslinethickness") /\ Attr(n, "mslinethickness") \notin {"thin", "medium", "thick"} ->
         Attr(n, "mslinethickness")
    [] OTHER -> "0.15em"

\* a cell of a line row
msline_cell(class, w) ==
  E("mtd", {<<"class", class>>},
    <<E("mpadded", {<<"lspace", "-0.2em">>, <<"width", "0em">>, <<"height", "0em">>},
        <<E("mfrac", {<<"linethickness", w>>},
            <<E("mspace", {<<"width", ".5em">>}, <<>>), E("mrow", {}, <<>>)>>)>>)>>)

\* template match="m:msline" mode="mstack1"
mstack1_msline(n, p, ctx) ==
  <<El("mtr", {<<"class", "msline">>, <<"l", msline_l(n, p, ctx)>>},
       IF NoLength(n) THEN <<msline_cell("mslinemax", msline_w(n))>>
       ELSE [i \in 1..LoopCount(Num(Attr(n, "length")), ctx.nn) |->
               msline_cell("msline", msline_w(n))])>>

\* the mathsize of round(@scriptsizemultiplier div .007)%, for the
\* multipliers written as a decimal fraction with one digit
Mathsize(m) ==
  CASE m = "0.5" -> "71%" [] m = "0.6" -> "86%" [] m = "0.7" -> "100%"
    [] m = "0.8" -> "114%" [] m = "1" -> "143%" [] OTHER -> "NaN%"

\* the content of a carry cell: inside m:mstyle when the m:mscarries has a
\* scriptsizemultiplier
msc_content(parent, content) ==
  IF HasAttr(parent, "scriptsizemultiplier")
  THEN <<El("mstyle", {<<"mathsize", Mathsize(Attr(parent, "scriptsizemultiplier"))>>}, content)>>
  ELSE content

\* templates match="*" mode="msc" and match="m:mscarry" mode="msc"
msc(n, parent, ctx) ==
  IF n.tag = "mscarry"
  THEN El("mtd", CopyAttr(n, "location") \cup CopyAttr(n, "crossout"),
          msc_content(parent, ApplyAll(n.kids, Down(ctx, n))))
  ELSE El("mtd", CopyAttr(parent, "location") \cup CopyAttr(parent, "crossout"),
          msc_content(parent, Apply(n, ctx)))

\* template match="m:mscarries" mode="mstack1"
mstack1_mscarries(n, p, ctx) ==
  LET es == Elems(n)
      l1 == IF ctx.align = "left" THEN 0 ELSE Len(es)
  IN <<El("mtr", {<<"class", "mscarries">>,
                  <<"l", Str(Plus(Plus(p, l1), SumAttr(n, "position")))>>},
          [i \in 1..Len(es) |-> msc(es[i], n, Down(ctx, n))])>>

\* apply-templates mode="mstack1" to one element with parameter p
mstack1(n, p, ctx) ==
  CASE n.tag = "msrow" -> mstack1_msrow(n, p, ctx)
    [] n.tag = "mn" -> mstack1_mn(n, p, ctx)
    [] n.tag = "msgroup" -> mstack1_msgroup(n, p, ctx)
    [] n.tag = "msline" -> mstack1_msline(n, p, ctx)
    [] n.tag = "mscarries" -> mstack1_mscarries(n, p, ctx)
    [] OTHER -> mstack1_any(n, p, ctx)

\* -------------------------------------------------- template m:mstack
\* variable maxl: the first @l of c:node-set($t)/*/@l in descending numeric
\* order, NaN sorting last; "" when no row has an @l
maxl(rows) ==
  LET ls == {Num(Attr(rows[i], "l")) : i \in {j \in 1..Len(rows) : HasAttr(rows[j], "l")}}
      nums == ls \ {NaN}
  IN IF ls = {} \/ nums = {} THEN NaN
     ELSE CHOOSE x \in nums : \A y \in nums : y <= x

\* $c/*[position() = k]: the carry cell at position k, if any
CarryAt(c, k) == IF c = <<>> THEN <<>> ELSE Nth(Elems(c[1]), k)

\* $cy/*: the element children of the carry cell
CarryContent(cy) == IF cy = <<>> THEN <<>> ELSE Elems(cy[1])
CarryAttr(cy, a) == IF cy = <<>> THEN "" ELSE Attr(cy[1], a)

\* a padding cell of a row that has a carry row: lines 343-348
carry_pad(cy) ==
  El("mtd", {},
     IF CarryContent(cy) # <<>>
     THEN <<E("mover", {},
              <<E("mphantom", {}, <<E("mn", {}, <<T(<<"0">>)>>)>>),
                E("mpadded", {<<"width", "0em">>, <<"lspace", "-0.5width">>}, CarryContent(cy))>>)>>
     ELSE <<>>)

\* variable b: the content of the cell, struck out when the carry has a
\* crossout
carry_b(cell, cy) ==
  IF CarryAttr(cy, "crossout") = "" THEN Elems(cell)
  ELSE <<E("menclose", {<<"notation", CarryAttr(cy, "crossout")>>}, Elems(cell))>>

\* the m:mpadded that holds the carry
carry_box(attrs, cy) == E("mpadded", attrs, CarryContent(cy))

\* a cell of a row that has a carry row: lines 353-399
carry_cell(cell, cy) ==
  LET b == carry_b(cell, cy)
      loc == CarryAttr(cy, "location")
      hasNone == \E i \in 1..Len(CarryContent(cy)) : CarryContent(cy)[i].tag = "none"
      W0 == {<<"width", "0em">>}
      WL == {<<"lspace", "-1width">>, <<"width", "0em">>}
      WH == {<<"width", "0em">>, <<"lspace", "-0.5width">>}
  IN El(cell.tag, cell.attrs,
        CASE hasNone \/ CarryContent(cy) = <<>> -> b
          [] OTHER ->
             CASE loc = "" \/ loc = "n" -> <<E("mover", {}, b \o <<carry_box(WH, cy)>>)>>
               [] loc = "nw" -> <<E("mmultiscripts", {},
                                     b \o <<E("mprescripts", {}, <<>>), E("none", {}, <<>>),
                                            carry_box(WL, cy)>>)>>
               [] loc = "s" -> <<E("munder", {}, b \o <<carry_box(WH, cy)>>)>>
               [] loc = "sw" -> <<E("mmultiscripts", {},
                                     b \o <<E("mprescripts", {}, <<>>), carry_box(WL, cy),
                                            E("none", {}, <<>>)>>)>>
               [] loc = "ne" -> <<E("msup", {}, b \o <<carry_box(W0, cy)>>)>>
               [] loc = "se" -> <<E("msub", {}, b \o <<carry_box(W0, cy)>>)>>
               [] loc = "w" -> <<E("msup", {}, <<E("mrow", {}, <<>>), carry_box(WL, cy)>>)>> \o b
               [] loc = "e" -> b \o <<E("msup", {}, <<E("mrow", {}, <<>>), carry_box(W0, cy)>>)>>
               [] OTHER -> b)

\* the carry row taken from the following sibling instead
CarryOf_following(rows, i) ==
  IF i < Len(rows) /\ Attr(rows[i + 1], "class") = "mscarries" THEN <<rows[i + 1]>> ELSE <<>>

\* the row that decorates row i of rows: variable c, preceding-sibling::*[1]
\* [@class='mscarries']
CarryOf(rows, i) ==
  IF i > 1 /\ Attr(rows[i - 1], "class") = "mscarries" THEN <<rows[i - 1]>> ELSE <<>>

\* whether the for-each of line 324 selects row i
RowSelected(rows, i) ==
  Attr(rows[i], "class") # "mscarries"
  \/ (i < Len(rows) /\ Attr(rows[i + 1], "class") = "mscarries")

\* the m:mtr made of row i: lines 326-407.  nn and ne count the nodes and
\* the elements of $t, the document of the row.
mstack_row(rows, i, mx, nn, ne) ==
  LET r == rows[i]
      c == CarryOf(rows, i)
      offset == Minus(mx, Num(Attr(r, "l")))
      cl == IF c = <<>> THEN NaN ELSE Num(Attr(c[1], "l"))
      ldiff == Minus(cl, Num(Attr(r, "l")))
      loffset == Minus(mx, cl)
      at(k) == IF k = NaN THEN <<>> ELSE CarryAt(c, k)
      cells == Elems(r)
  IN <<T(<<"\n">>),
       El("mtr", {p \in r.attrs : p = <<"class", "msline">>},
          CASE Attr(r, "class") = "msline" /\ Attr(r, "l") = "*" ->
                 [k \in 1..LoopCount(mx, nn) |-> cells[1]]
            [] ~ (Attr(r, "class") = "msline" /\ Attr(r, "l") = "*") /\ c # <<>> ->
                 [pn \in 1..LoopCount(offset, ne) |-> carry_pad(at(Minus(pn, loffset)))]
                 \o [pn \in 1..Len(cells) |-> carry_cell(cells[pn], at(Plus(pn, ldiff)))]
            [] OTHER ->
                 [pn \in 1..LoopCount(offset, ne) |-> E("mtd", {}, <<>>)] \o cells)>>

\* variable m of template match="m:mstack": the m:mtable of the selected rows
mstack_m(n, ctx) ==
  LET es == Elems(n)
      t == MergeText(Cat([i \in 1..Len(es) |-> mstack1(es[i], 0, Down(ctx, n))]))
      rows == SelectSeq(t, IsElem)
      mx == maxl(rows)
  IN El("mtable",
        {<<"columnspacing", "0em">>, <<"rowspacing", "0em">>} \cup CopyAttr(n, "align"),
        Cat([i \in 1..Len(rows) |->
               IF RowSelected(rows, i)
               THEN mstack_row(rows, i, mx, DocNodes(t), DocElems(t)) ELSE <<>>]))

\* --------------------------------------------------------------- mode "ml"
\* whether an element has an m:mpadded child
HasMpadded(cell) == \E i \in 1..Len(cell.kids) : cell.kids[i].tag = "mpadded"

\* template mode="ml" match="m:mtr[following-sibling::*[1][@class='msline']]":
\* a cell is underlined when the cell of the line row at its position has an
\* m:mpadded
ml_underlined(r, line) ==
  LET cells == SelectSeq(r.kids, LAMBDA k : k.tag = "mtd")
      m == SelectSeq(line.kids, LAMBDA k : k.tag = "mtd")
  IN <<El("mtr", r.attrs,
          [p \in 1..Len(cells) |->
             El("mtd", cells[p].attrs,
                IF p <= Len(m) /\ HasMpadded(m[p])
                THEN <<E("mpadded", {<<"depth", "+.2em">>},
                         <<E("menclose", {<<"notation", "bottom">>},
                             <<E("mpadded", {<<"depth", ".1em">>, <<"height", ".8em">>,
                                             <<"width", ".8em">>},
                                 <<E("mspace", {<<"width", ".15em">>}, <<>>)>>
                                 \o Elems(cells[p]))>>)>>)>>
                ELSE Elems(cells[p]))])>>

\* template mode="ml" match="m:mtr[not(preceding-sibling::*)][@class='msline']"
ml_firstline(r) ==
  LET cells == SelectSeq(r.kids, LAMBDA k : k.tag = "mtd")
  IN <<El("mtr", r.attrs,
          [p \in 1..Len(cells) |->
             El("mtd", cells[p].attrs,
                IF HasMpadded(cells[p])
                THEN <<E("menclose", {<<"notation", "bottom">>},
                         <<E("mpadded", {<<"depth", ".1em">>, <<"height", "1em">>,
                                         <<"width", ".5em">>},
                             <<E("mspace", {<<"width", ".2em">>}, <<>>)>>)>>)>>
                ELSE <<>>)])>>

\* apply-templates mode="ml" to child i of element parent
RECURSIVE ml_kids(_)
ml(parent, i) ==
  LET n == parent.kids[i]
      before == SelectSeq(SubSeq(parent.kids, 1, i - 1), IsElem)
      after == SelectSeq(SubSeq(parent.kids, i + 1, Len(parent.kids)), IsElem)
  IN CASE IsText(n) -> <<n>>
       [] n.tag = "mtr" /\ Attr(n, "class") = "msline" /\ before = <<>> -> ml_firstline(n)
       [] n.tag = "mtr" /\ Attr(n, "class") = "msline" /\ before # <<>> -> <<>>
       [] n.tag = "mtr" /\ Attr(n, "class") # "msline"
          /\ after # <<>> /\ Attr(after[1], "class") = "msline" -> ml_underlined(n, after[1])
       [] n.tag = "none" -> <<E("mrow", {}, <<>>)>>
       [] OTHER -> <<El(n.tag, n.attrs, ml_kids(n))>>

\* apply-templates mode="ml" to the children of an element
ml_kids(n) == Cat([i \in 1..Len(n.kids) |-> ml(n, i)])

\* template match="m:mstack": $m rescanned in mode ml
mstack(n, ctx) ==
  LET m == mstack_m(n, ctx)
  IN <<El(m.tag, m.attrs, ml_kids(m))>>

\* ------------------------------------------------ template m:mlongdiv
Mo(c) == E("mo", {}, <<T(<<c>>)>>)

\* The stylesheet is the template literal Mml3.XSLT (lines 136-806), in which
\* a backslash starts an escape.  In line 674 "\r" is a carriage return, which
\* an XML parser reads as a space inside an attribute value: the test compares
\* @longdivstyle with SlashStyleTest, not with the style name left/\right.
SlashStyleTest == "left/ ight"

\* the m:msrow of lines 675-681.  In line 679 "\<" is "<", so that the m:mo
\* after the dividend is empty.
longdiv_slash(a1, a2, a3) ==
  E("msrow", {}, <<E("mrow", {}, a1), Mo("/")>> \o a3 \o <<E("mo", {}, <<>>)>> \o a2)

\* the m:msrow of longdivstyle ':right=right' with the divisor in front
longdiv_colon_divisorFirst(a1, a2, a3) ==
  E("msrow", {}, a1 \o <<Mo(":")>> \o a3 \o <<Mo("=")>> \o a2)

\* the m:msrow of longdivstyle ':right=right': dividend : divisor = quotient
longdiv_colon(a1, a2, a3) ==
  E("msrow", {}, a3 \o <<Mo(":")>> \o a1 \o <<Mo("=")>> \o a2)

\* the rows put in $ms before the trailing rows: the xsl:choose of
\* lines 664-732.  a1, a2, a3 are *[1], *[2], *[3], each zero or one node.
longdiv_rows(style, a1, a2, a3) ==
  LET len3 == IF a3 = <<>> THEN 0 ELSE Len(StringValue(a3[1]))
  IN CASE style = "left)(right" ->
            <<E("msrow", {}, <<E("mrow", {}, a1), Mo(")")>> \o a3 \o <<Mo("(")>> \o a2)>>
       [] style = SlashStyleTest -> <<longdiv_slash(a1, a2, a3)>>
       [] style = ":right=right" -> <<longdiv_colon(a1, a2, a3)>>
       [] style \in {"stackedrightright", "mediumstackedrightright",
                     "shortstackedrightright", "stackedleftleft"} -> a3
       [] style = "stackedleftlinetop" ->
            a2 \o <<E("msline", {<<"length", Str(len3)>>}, <<>>),
                    E("msrow", {},
                      <<E("mrow", {}, <<E("menclose", {<<"notation", "bottom right">>}, a1)>>)>>
                      \o a3)>>
       [] style = "righttop" ->
            a2 \o <<E("msline", {<<"length", Str(len3)>>}, <<>>),
                    E("msrow", {},
                      a3 \o <<E("menclose", {<<"notation", "top left bottom">>}, a1)>>)>>
       [] OTHER ->
            a2 \o <<E("msline", {<<"length", Str(len3 + 1)>>}, <<>>),
                    E("msrow", {},
                      <<E("mrow", {}, a1 \o <<E("mspace", {<<"width", ".2em">>}, <<>>)>>),
                        E("mpadded", {<<"voffset", ".1em">>, <<"lspace", "-.15em">>,
                                      <<"depth", "-.2em">>, <<"height", "-.2em">>},
                          <<E("mo", {<<"minsize", "1.2em">>}, <<T(<<")">>)>>)>>)>>
                      \o a3)>>

\* the m:mstack of a long division that takes the last child for a missing
\* argument
longdiv_ms_lastForMissing(n, ctx) ==
  LET es == Elems(n)
      style == Attr(n, "longdivstyle")
      dp == Down(ctx, n).dp
      top == IF style \in {"stackedrightright", "mediumstackedrightright",
                           "shortstackedrightright", "stackedleftleft"}
             THEN {<<"align", "top">>} ELSE {}
      arg(k) == Nth(es, IF k < Len(es) THEN k ELSE Len(es))
  IN E("mstack", (IF dp = "" THEN {} ELSE {<<"decimalpoint", dp>>}) \cup top,
       longdiv_rows(style, arg(1), arg(2), arg(3))
       \o SubSeq(es, 4, Len(es)))

\* variable ms of template match="m:mlongdiv": the m:mstack, with the
\* nearest decimalpoint attribute and, in the stacked styles, align="top"
longdiv_ms(n, ctx) ==
  LET es == Elems(n)
      style == Attr(n, "longdivstyle")
      dp == Down(ctx, n).dp
      top == IF style \in {"stackedrightright", "mediumstackedrightright",
                           "shortstackedrightright", "stackedleftleft"}
             THEN {<<"align", "top">>} ELSE {}
  IN E("mstack", (IF dp = "" THEN {} ELSE {<<"decimalpoint", dp>>}) \cup top,
       longdiv_rows(style, Nth(es, 1), Nth(es, 2), Nth(es, 3))
       \o SubSeq(es, 4, Len(es)))

\* the m:mtable of the stacked styles: the divisor under the notation given,
\* over the quotient
longdiv_side(notation, a1, a2) ==
  E("mtable", {<<"align", "top">>},
    <<E("mtr", {}, <<E("menclose", {<<"notation", notation>>}, a1)>>),
      E("mtr", {}, <<E(NoNsMtd, {}, a2)>>)>>)

\* template match="m:mlongdiv": $ms is a document of its own, and the
\* templates are applied to it; the stacked styles copy the divisor and the
\* quotient beside it
mlongdiv(n, ctx) ==
  LET es == Elems(n)
      style == Attr(n, "longdivstyle")
      ms == longdiv_ms(n, ctx)
      out == Apply(ms, Ctx(NodeCount(ms), ElemCount(ms), "", ""))
      a1 == Nth(es, 1)
      a2 == Nth(es, 2)
  IN CASE style = "stackedrightright" ->
            <<El("menclose", {<<"notation", "right">>}, out), longdiv_side("bottom", a1, a2)>>
       [] style = "mediumstackedrightright" ->
            out \o <<E("menclose", {<<"notation", "left">>}, <<longdiv_side("bottom", a1, a2)>>)>>
       [] style = "shortstackedrightright" ->
            out \o <<longdiv_side("left bottom", a1, a2)>>
       [] style = "stackedleftleft" ->
            <<longdiv_side("bottom", a1, a2), El("menclose", {<<"notation", "left">>}, out)>>
       [] OTHER -> out

\* ------------------------------------------------- class Mml3 (lines 45-94)
\* this.transform of the browser branch: the node is cloned into a div, the
\* stylesheet is applied to that document (the built-in rule of the root
\* applies the templates to the div), and the first child of the result
\* document is returned
transform(node) ==
  LET div == E("div", {}, <<node>>)
      doc == ApplyAll(<<div>>, Ctx(DocNodes(<<div>>), DocElems(<<div>>), "", ""))
  IN Head(doc)

\* the filter without its test of the option
mmlFilter_noOptionTest(a) == [a EXCEPT !.data = transform(a.data)]

\* Mml3.mmlFilter: args.data is replaced when the option enableMml3 of the
\* document of args is truthy
mmlFilter(a) ==
  IF a.document.enableMml3 THEN [a EXCEPT !.data = transform(a.data)] ELSE a

\* --------------------------------------------------------------- the inputs
Mi(c) == E("mi", {}, <<T(<<c>>)>>)
Mn(cs) == E("mn", {}, <<T(cs)>>)
Math(kids) == E("math", {}, kids)

\* the most digits before and after the decimal separator of a numeral
MaxInt == 7
MaxFrac == 2

\* the numeral with a digits before and b digits after the separator
Decimal(a, b) == Mn([i \in 1..a |-> ToString(i % 10)] \o <<".">>
                    \o [i \in 1..b |-> ToString((i + 3) % 10)])
Decimals == {Decimal(a, b) : a \in 0..MaxInt, b \in 0..MaxFrac}

\* stacks of two numerals that hold the separator
DecimalStacks ==
  {Math(<<E("mstack", {}, <<x, y>>)>>) : x \in Decimals, y \in Decimals}

\* the long-division styles the stylesheet names; "" is an absent attribute
Styles == {"left)(right", "left/\\right", ":right=right", "stackedrightright",
           "mediumstackedrightright", "shortstackedrightright", "stackedleftleft",
           "stackedleftlinetop", "righttop"}
LongDiv(style, kids) ==
  Math(<<E("mlongdiv", IF style = "" THEN {} ELSE {<<"longdivstyle", style>>}, kids)>>)

\* one-digit divisor, one-digit quotient, two dividend rows
TwoRowKids ==
  {<<x, Mn(<<"4">>), r1, r2>> :
     x \in {Mn(<<"3">>), Mn(<<"7">>)},
     r1 \in {Mn(<<"1", "2">>), Mn(<<"9">>)},
     r2 \in {Mn(<<"0">>), Mn(<<"1", "2">>)}}
\* divisor, quotient and one dividend row
OneRowKids ==
  {<<x, q, r>> : x \in {Mn(<<"3">>), Mn(<<"7">>)},
                 q \in {Mn(<<"1", "2">>), Mn(<<"4">>)},
                 r \in {Mn(<<"3", "6">>), Mn(<<"9">>)}}
\* fewer than three children
ShortKids == {<<>>, <<Mn(<<"3">>)>>, <<Mn(<<"1", "2">>)>>, <<Mn(<<"3">>), Mn(<<"1", "2">>)>>}
\* a divisor or a quotient that holds a stack or a long division
NestedKids ==
  {<<E("mstack", {}, <<Mn(<<"5">>)>>), Mn(<<"4">>), Mn(<<"1", "2">>)>>,
   <<Mn(<<"3">>),
     E("mrow", {}, <<E("mlongdiv", {}, <<Mn(<<"2">>), Mn(<<"3">>), Mn(<<"6">>)>>)>>),
     Mn(<<"1", "2">>)>>}

LongDivInputs ==
  {LongDiv(st, k) : st \in Styles \cup {"", SlashStyleTest},
                    k \in TwoRowKids \cup OneRowKids \cup ShortKids \cup NestedKids}

\* trees that match no specific rule at the top, over children of every kind
PlainInputs ==
  {Math(<<E("mrow", at, <<Mi("x"), k>>)>>) :
     at \in {{}, {<<"mathcolor", "red">>, <<"dir", "ltr">>}},
     k \in {E("mo", {}, <<T(<<"(">>)>>),
            E("mstack", {}, <<Mn(<<"1", "2">>), Mn(<<"3">>)>>),
            E("msup", {<<"dir", "rtl">>}, <<Mi("a"), Mi("b")>>),
            E("mfrac", {<<"bevelled", "true">>}, <<Mi("a"), Mn(<<"2">>)>>)}}

\* the most entries of a carry row
MaxCarries == 3
None == E("none", {}, <<>>)
Carry(attrs, kids) == E("mscarry", attrs, kids)
CarryEntries ==
  {None, Carry({}, <<>>), Carry({}, <<Mn(<<"1">>)>>),
   Carry({<<"location", "n">>}, <<Mn(<<"1">>)>>),
   Carry({<<"location", "s">>}, <<Mn(<<"1">>)>>)}
RECURSIVE Tuples(_, _)
\* the sequences of length k over S
Tuples(S, k) ==
  IF k = 0 THEN {<<>>} ELSE {<<x>> \o t : x \in S, t \in Tuples(S, k - 1)}
\* a carry row above a numeral row
CarryStacks ==
  {Math(<<E("mstack", {}, <<E("mscarries", {}, cs), x>>)>>) :
     cs \in UNION {Tuples(CarryEntries, k) : k \in 2..MaxCarries},
     x \in {Mn(<<"1", "2">>), Mn(<<"1", "2", "3">>)}}

\* what the rules of mode rtl substitute: fence characters, the listed text
\* characters, and the script elements
Fences == {"(", ")", "[", "]", "{", "}", "|"}
MirroredText == {"(", ")", "{", "}", "<", ">", "&#x2208;", "&#x220b;", "a"}
RtlTrees ==
  {E("mo", {}, <<T(<<c>>)>>) : c \in MirroredText}
  \cup {E("mfenced", {<<"open", o>>, <<"close", c>>}, <<Mi("a")>>) : o \in Fences, c \in Fences}
  \cup {E("mfenced", {<<"open", o>>}, <<Mi("a")>>) : o \in Fences}
  \cup {E("msub", {}, <<Mi("a"), Mi("b")>>),
        E("msup", {}, <<Mi("a"), Mi("b")>>),
        E("msubsup", {}, <<Mi("a"), Mi("b"), Mi("c")>>),
        E("mmultiscripts", {},
          <<Mi("a"), Mi("b"), Mi("c"), E("mprescripts", {}, <<>>), Mi("d"), Mi("e")>>)}
\* a tree of RtlTrees in a row that is marked right-to-left
RtlInputs == {Math(<<E("mrow", {<<"dir", "rtl">>}, <<x>>)>>) : x \in RtlTrees}

\* a carry row between two numeral rows, and a carry row after the last row
CarryRows ==
  {<<None, Carry({}, <<Mn(<<"9">>)>>)>>, <<Carry({}, <<Mn(<<"9">>)>>), None>>,
   <<Carry({}, <<Mn(<<"9">>)>>), Carry({}, <<Mn(<<"8">>)>>)>>}
CarryBetween ==
  {Math(<<E("mstack", {}, <<Mn(<<"1", "2">>), E("mscarries", {}, cs)>> \o after)>>) :
     cs \in CarryRows, after \in {<<>>, <<Mn(<<"3", "4">>)>>, <<Mn(<<"5", "6">>)>>}}

\* the stackalign values of the stacks of the model: absent, and the four
\* values the templates of mode mstack1 test for
Alignments ==
  {{}} \cup {{<<"stackalign", a>>} : a \in {"left", "right", "center", "decimalpoint"}}
\* a numeral inside an msgroup that shifts it, over a one-digit numeral
AnchorStacks ==
  {Math(<<E("mstack", al, <<E("msgroup", pos, <<Mn(x)>>), Mn(<<"7">>)>>)>>) :
     al \in Alignments,
     pos \in {{}, {<<"position", "1">>}, {<<"position", "2">>}},
     x \in {<<"1", "2">>, <<"1", ".", "5">>, <<"1", "2", "3">>}}

\* a stack of one numeral of n digits, alone in the math element or after
\* two identifiers that make the document larger
Numeral(n) == Mn([i \in 1..n |-> ToString(i % 10)])
LoneNumerals ==
  {Math(before \o <<E("mstack", {}, <<Numeral(n)>>)>>) :
     n \in 1..MaxInt, before \in {<<>>, <<Mi("a"), Mi("b")>>}}

\* a three-digit numeral over a line inside an msgroup that shifts it
Lengths == {{}, {<<"length", "0">>}, {<<"length", "1">>}, {<<"length", "2">>}}
LineStacks ==
  {Math(<<E("mstack", al,
            <<Numeral(3), E("msgroup", pos, <<E("msline", len, <<>>)>>)>>)>>) :
     al \in Alignments, pos \in {{}, {<<"position", "1">>}}, len \in Lengths}

\* a three-digit numeral over a line of each thickness and length
Thicknesses ==
  {{}} \cup {{<<"mslinethickness", w>>} : w \in {"thin", "medium", "thick", "0.3em"}}
ThickStacks ==
  {Math(<<E("mstack", {}, <<Numeral(3), E("msline", th \cup len, <<>>)>>)>>) :
     th \in Thicknesses, len \in Lengths}

\* a right-to-left row of up to three identifiers, the row and the second
\* identifier with and without attributes of their own
Bold == {<<"mathvariant", "bold">>}
GenericRows ==
  {Math(<<E("mrow", {<<"dir", "rtl">>} \cup ra, ks)>>) :
     ra \in {{}, {<<"mathcolor", "red">>}},
     ks \in {<<>>, <<Mi("a")>>, <<Mi("a"), Mi("b")>>, <<Mi("a"), Mi("b"), Mi("c")>>,
             <<Mi("a"), E("mi", Bold, <<T(<<"b">>)>>), Mi("c")>>,
             <<E("mrow", Bold, <<Mi("a"), Mi("b")>>), Mi("c")>>}}

\* the containers mode rtl has a template for, each in a right-to-left row;
\* a square root with one, two and three children
Containers ==
  {E("msqrt", {}, ks) :
     ks \in {<<Mi("a")>>, <<Mi("a"), Mi("b")>>, <<Mn(<<"2">>), Mi("a"), Mi("b")>>}}
  \cup {E("mroot", {}, <<Mi("a"), Mn(<<"3">>)>>),
        E("mfrac", {}, <<Mi("a"), Mi("b")>>),
        E("mfrac", {<<"bevelled", "true">>}, <<Mi("a"), Mi("b")>>),
        E("munderover", {}, <<Mi("a"), Mi("b"), Mi("c")>>),
        E("menclose", {<<"notation", "madruwb">>}, <<Mi("a"), Mi("b")>>),
        E("mmultiscripts", {}, <<Mi("a"), Mi("b"), Mi("c")>>)}
ContainerRows == {Math(<<E("mrow", {<<"dir", "rtl">>}, <<x>>)>>) : x \in Containers}

Inputs == DecimalStacks \cup LongDivInputs \cup PlainInputs \cup CarryStacks \cup RtlInputs
          \cup CarryBetween \cup AnchorStacks \cup LoneNumerals \cup LineStacks
          \cup ThickStacks \cup GenericRows \cup ContainerRows

HostInputs == {Math(<<Mi("x")>>), Math(<<E("mstack", {}, <<Mn(<<"1", "2">>), Mn(<<"3">>)>>)>>)}

\* ------------------------------------------------------------------ state
VARIABLES
  mml3,        \* jax.options._mml3 of each input jax
  mmlFilters,  \* the Mml3 filters of each input jax's mmlFilters list
  document,    \* the document constructed last: its inputJax, its option enableMml3
  args,        \* the FILTERDATA of the compilation under way
  given,       \* args as the filter chain received it
  built        \* how many documents were constructed with each jax as their first MathML jax

vars == <<mml3, mmlFilters, document, args, given, built>>

\* the most documents constructed over one input jax
MaxDocuments == 2

\* the input jax objects a page can hold, and jax.name
Jax == {"mml", "mml2", "tex"}
JaxName(j) == IF j = "tex" THEN "TeX" ELSE "MathML"
\* the inputJax lists of a document
JaxLists == {<<>>} \cup {<<j>> : j \in Jax}
            \cup {<<j, k>> : j \in Jax, k \in Jax}

\* OPTIONS.enableMml3 of the document class Mml3Handler makes
EnableMml3Default == TRUE

NoTree == T(<<>>)
NoDocument == [made |-> FALSE, inputJax |-> <<>>, enableMml3 |-> FALSE]
NoArgs == [active |-> FALSE, math |-> [inputJax |-> ""], document |-> NoDocument,
           data |-> NoTree]

InitHost ==
  /\ mml3 = [j \in Jax |-> FALSE]
  /\ mmlFilters = [j \in Jax |-> <<>>]
  /\ document = NoDocument
  /\ args = NoArgs
  /\ given = NoArgs
  /\ built = [j \in Jax |-> 0]

\* the first input jax named 'MathML' of a list: zero or one position
FirstMathML(list) ==
  {i \in 1..Len(list) : JaxName(list[i]) = "MathML"
                        /\ \A k \in 1..(i - 1) : JaxName(list[k]) # "MathML"}

\* the constructor without its test of jax.options._mml3
Construct_noFlagTest(list, enable) ==
  /\ document' = [made |-> TRUE, inputJax |-> list, enableMml3 |-> enable]
  /\ built' = [j \in Jax |-> IF \E i \in FirstMathML(list) : list[i] = j
                             THEN built[j] + 1 ELSE built[j]]
  /\ IF FirstMathML(list) # {}
     THEN LET j == list[CHOOSE i \in FirstMathML(list) : TRUE]
          IN /\ mmlFilters' = [mmlFilters EXCEPT ![j] = Append(@, "mml3.mmlFilter")]
             /\ mml3' = [mml3 EXCEPT ![j] = TRUE]
     ELSE UNCHANGED <<mml3, mmlFilters>>

\* the constructor of the document class of Mml3Handler: lines 116-128
Construct(list, enable) ==
  /\ document' = [made |-> TRUE, inputJax |-> list, enableMml3 |-> enable]
  /\ built' = [j \in Jax |-> IF \E i \in FirstMathML(list) : list[i] = j
                             THEN built[j] + 1 ELSE built[j]]
  /\ IF \E i \in FirstMathML(list) : ~ mml3[list[i]]
     THEN LET j == list[CHOOSE i \in FirstMathML(list) : TRUE]
          IN /\ mmlFilters' = [mmlFilters EXCEPT ![j] = Append(@, "mml3.mmlFilter")]
             /\ mml3' = [mml3 EXCEPT ![j] = TRUE]
     ELSE UNCHANGED <<mml3, mmlFilters>>

\* new handler.documentClass(..., {InputJax: list, enableMml3: enable}); the
\* option is the default when the caller gives none
NewDocument ==
  /\ ~ args.active
  /\ \E list \in JaxLists, enable \in {EnableMml3Default} \cup BOOLEAN :
        /\ \A i \in FirstMathML(list) : built[list[i]] < MaxDocuments
        /\ Construct(list, enable)
  /\ UNCHANGED <<args, given>>

RECURSIVE RunFilters(_, _)
\* the filters of a list, run in order on the data
RunFilters(fs, a) ==
  IF fs = <<>> THEN a ELSE RunFilters(Tail(fs), mmlFilter(a))

\* a MathML input jax of the document runs its mmlFilters on a tree of S
Compile(S) ==
  /\ document.made
  /\ ~ args.active
  /\ \E i \in 1..Len(document.inputJax), t \in S :
        /\ JaxName(document.inputJax[i]) = "MathML"
        /\ given' = [active |-> TRUE, math |-> [inputJax |-> document.inputJax[i]],
                      document |-> document, data |-> t]
        /\ args' = RunFilters(mmlFilters[document.inputJax[i]], given')
  /\ UNCHANGED <<mml3, mmlFilters, document, built>>

\* the compilation ends: the filtered tree is handed on
Finish ==
  /\ args.active
  /\ args' = NoArgs
  /\ given' = NoArgs
  /\ UNCHANGED <<mml3, mmlFilters, document, built>>

NextHost == NewDocument \/ Compile(HostInputs) \/ Finish

SpecHost == InitHost /\ [][NextHost]_vars

\* a page whose handler was wrapped and whose one document, with the MathML
\* input jax "mml", was constructed with the default options
Init ==
  /\ mml3 = [j \in Jax |-> j = "mml"]
  /\ mmlFilters = [j \in Jax |-> IF j = "mml" THEN <<"mml3.mmlFilter">> ELSE <<>>]
  /\ document = [made |-> TRUE, inputJax |-> <<"mml">>, enableMml3 |-> EnableMml3Default]
  /\ args = NoArgs
  /\ given = NoArgs
  /\ built = [j \in Jax |-> IF j = "mml" THEN 1 ELSE 0]

Next == Compile(Inputs) \/ Finish

Spec == Init /\ [][Next]_vars

\* ------------------------------------------------------------------ claims

\* the filter of the compiling jax ran with the option on: args.data is the
\* transform of given.data
Transformed ==
  /\ args.active
  /\ given.document.enableMml3
  /\ Len(mmlFilters[given.math.inputJax]) = 1

RECURSIVE Tags(_)
\* the element names that occur in a tree, at any depth
Tags(n) ==
  IF IsText(n) THEN {}
  ELSE {n.tag} \cup UNION {Tags(n.kids[i]) : i \in 1..Len(n.kids)}

ElementaryMath ==
  {"mstack", "msrow", "msgroup", "msline", "mscarries", "mscarry", "mlongdiv"}

\* the element children of the math element of a tree handed to the filter
InBody == Elems(given.data)
\* the math element of the transformed tree, which is rooted at the div
OutMath == Head(Elems(args.data))
\* the rows of the table the transform made of a stack
OutRows == Elems(Head(Elems(OutMath)))

\* C1: the tree returned by transform holds none of the elementary-math
\* elements (mstack, msrow, msgroup, msline, mscarries, mscarry, mlongdiv) at
\* any depth, also when the divisor or the quotient of an mlongdiv holds an
\* mstack or an mlongdiv, in every longdivstyle.
C1_NoElementaryMath ==
  Transformed => Tags(args.data) \cap ElementaryMath = {}

\* the columns of a row whose cell holds the separator
SepColumns(row) ==
  {i \in 1..Len(Elems(row)) : StringValue(Elems(row)[i]) = <<".">>}
\* the number of empty cells a row starts with
LeadingEmpty(row) ==
  LET cells == Elems(row)
  IN CHOOSE k \in 0..Len(cells) :
       /\ \A i \in 1..k : cells[i].kids = <<>>
       /\ k = Len(cells) \/ cells[k + 1].kids # <<>>
\* the number of characters of a numeral before the separator
Anchor(x) == LenBefore(StringValue(x), ".")
MaxOf(S) == CHOOSE x \in S : \A y \in S : y <= x

\* C2: under decimalpoint alignment (the default), in a stack of numerals that
\* each hold the separator, every row gets (max anchor - own anchor) leading
\* empty cells and its separator cell sits at the same column, max anchor + 1.
C2_SeparatorsAligned ==
  (Transformed /\ given.data \in DecimalStacks) =>
    LET ins == Elems(Head(InBody))
        rows == OutRows
        mx == MaxOf({Anchor(ins[i]) : i \in 1..Len(ins)})
    IN /\ Len(rows) = Len(ins)
       /\ \A i \in 1..Len(ins) :
            /\ LeadingEmpty(rows[i]) = mx - Anchor(ins[i])
            /\ SepColumns(rows[i]) = {mx + 1}

\* an element the default mode copies by its generic rule
Generic(n) ==
  /\ IsElem(n)
  /\ n.tag \notin {"mstack", "mlongdiv"}
  /\ ~ (InMathML(n) /\ Attr(n, "dir") = "rtl")
RECURSIVE Visited(_, _)
\* the elements the generic rule of the default mode is applied to, each with
\* its context
Visited(n, ctx) ==
  IF ~ Generic(n) THEN {}
  ELSE {<<n, ctx>>} \cup UNION {Visited(n.kids[i], Down(ctx, n)) : i \in 1..Len(n.kids)}
\* the source document of a run and its context
GivenDiv == E("div", {}, <<given.data>>)
GivenCtx == Ctx(DocNodes(<<GivenDiv>>), DocElems(<<GivenDiv>>), "", "")
\* r is n with the same tag and attributes over the transformed children of n,
\* in their order
CopyOf(r, n, ctx) ==
  /\ r.tag = n.tag
  /\ r.attrs = n.attrs
  /\ r.kids = MergeText(Cat([i \in 1..Len(n.kids) |-> Apply(n.kids[i], Down(ctx, n))]))

\* C7: in the default mode an element that matches no specific rule (not
\* mstack, not mlongdiv, no dir="rtl") is copied with the same tag and exactly
\* the same attributes, and its children are the results of transforming its
\* original children, in the original order.
C7_GenericPassthrough ==
  Transformed =>
    /\ CopyOf(args.data, GivenDiv, GivenCtx)
    /\ \A v \in Visited(GivenDiv, GivenCtx) :
         LET r == Apply(v[1], v[2])
         IN Len(r) = 1 /\ CopyOf(Head(r), v[1], v[2])

\* an mrow with attributes over a stack was copied around the table of the stack
C7_Witness ==
  /\ Transformed
  /\ given.data \in PlainInputs
  /\ \E i \in 1..Len(InBody) :
       /\ InBody[i].tag = "mrow"
       /\ "mstack" \in Tags(InBody[i])
       /\ Elems(OutMath)[i].tag = "mrow"
       /\ Elems(OutMath)[i].attrs = {<<"mathcolor", "red">>, <<"dir", "ltr">>}
       /\ "mtable" \in Tags(Elems(OutMath)[i])

\* C8: after any sequence of document constructions a MathML input jax holds
\* at most one Mml3 filter: a filter is added only when the flag _mml3 of the
\* jax is unset, the flag is set in the same step and is never cleared, and
\* only the first input jax named MathML of the document is considered.
C8_AtMostOneFilter ==
  /\ [](\A j \in Jax :
          /\ Len(mmlFilters[j]) = (IF mml3[j] THEN 1 ELSE 0)
          /\ JaxName(j) # "MathML" => ~ mml3[j])
  /\ [][\A j \in Jax :
          /\ mml3[j] => mml3'[j]
          /\ mmlFilters'[j] # mmlFilters[j] =>
               /\ ~ mml3[j]
               /\ mml3'[j]
               /\ mmlFilters'[j] = Append(mmlFilters[j], "mml3.mmlFilter")
               /\ \E i \in FirstMathML(document'.inputJax) : document'.inputJax[i] = j]_vars

\* two documents were constructed over the jax "mml", which holds one filter
C8_Witness ==
  /\ built["mml"] = MaxDocuments
  /\ Len(mmlFilters["mml"]) = 1
  /\ mml3["mml"]

\* C9: mmlFilter replaces args.data by the transform of args.data exactly when
\* the option enableMml3 of the document is truthy and otherwise leaves every
\* field of args unchanged; the option defaults to true.
C9_FilterGatedByOption ==
  /\ EnableMml3Default = TRUE
  /\ (args.active /\ Len(mmlFilters[given.math.inputJax]) = 1) =>
       IF given.document.enableMml3
       THEN /\ args = [given EXCEPT !.data = transform(given.data)]
            /\ args.data # given.data
       ELSE args = given

\* the filter ran on a stack with the option off and left it in place
C9_Witness ==
  /\ args.active
  /\ Len(mmlFilters[given.math.inputJax]) = 1
  /\ ~ given.document.enableMml3
  /\ "mstack" \in Tags(given.data)
  /\ args = given

\* the characters of a tree in document order, without the line feeds the
\* stack template puts between rows
Glyphs(n) == SelectSeq(StringValue(n), LAMBDA c : c # "\n")
\* the long division of a tree handed to the filter: its style and arguments
InStyle == Attr(Head(InBody), "longdivstyle")
InArgs == Elems(Head(InBody))
IsLongDiv == Transformed /\ InBody # <<>> /\ Head(InBody).tag = "mlongdiv"

\* C3 as stated: the mlongdiv of style ":right=right" with divisor 3,
\* quotient 12 and dividend 36 becomes a single row holding the dividend, ":",
\* the divisor, "=" and the quotient in this order, with no table or stack
\* element around that row.
C3_SingleRowNoWrapper ==
  (IsLongDiv /\ InStyle = ":right=right"
     /\ InArgs = <<Mn(<<"3">>), Mn(<<"1", "2">>), Mn(<<"3", "6">>)>>) =>
    /\ Glyphs(args.data) = <<"3", "6", ":", "3", "=", "1", "2">>
    /\ Tags(args.data) \cap {"mtable", "mstack"} = {}

\* C3 amended: an mlongdiv of style ":right=right" with a divisor, a quotient
\* and one dividend row becomes one mtable with one mtr whose cells hold, one
\* character each and in this order, the dividend, ":", the divisor, "=" and
\* the quotient; no stack element is left around it.
C3_SingleTableRow ==
  (IsLongDiv /\ InStyle = ":right=right" /\ InArgs \in OneRowKids) =>
    LET out == Elems(OutMath)
        rows == OutRows
        cells == Elems(Head(rows))
        want == StringValue(InArgs[3]) \o <<":">> \o StringValue(InArgs[1])
                \o <<"=">> \o StringValue(InArgs[2])
    IN /\ Len(out) = 1
       /\ Head(out).tag = "mtable"
       /\ Len(rows) = 1
       /\ Head(rows).tag = "mtr"
       /\ [i \in 1..Len(cells) |-> StringValue(cells[i])] = [i \in 1..Len(want) |-> <<want[i]>>]
       /\ \A i \in 1..Len(cells) : cells[i].tag = "mtd"
       /\ Tags(args.data) \cap ElementaryMath = {}

\* 36 : 3 = 12 came out as the one row of a table
C3_Witness ==
  /\ IsLongDiv
  /\ InStyle = ":right=right"
  /\ InArgs = <<Mn(<<"3">>), Mn(<<"1", "2">>), Mn(<<"3", "6">>)>>
  /\ Head(Elems(OutMath)).tag = "mtable"
  /\ Len(OutRows) = 1
  /\ Glyphs(args.data) = <<"3", "6", ":", "3", "=", "1", "2">>

\* the carry row and the numeral of a two-row stack handed to the filter
InCarries == Elems(Elems(Head(InBody))[1])
InDigits == StringValue(Elems(Head(InBody))[2])
\* the carry entries that have content
WithContent == {j \in 1..Len(InCarries) :
                  InCarries[j].tag = "mscarry" /\ InCarries[j].kids # <<>>}
\* the digit carry entry j is over: both rows end in the same column
DigitUnder(j) == j - Len(InCarries) + Len(InDigits)
Scripted == {"mover", "munder", "msup", "msub", "mmultiscripts"}

\* C5: in a two-row stack of a carry row and a numeral row with exactly one
\* carry entry with content, located north ("n" or unset) over digit 2, the
\* output table has exactly one decorated cell, the cell of digit 2 with the
\* carry content over it, and every other cell is undecorated.
C5_OneDecoratedCell ==
  (Transformed /\ given.data \in CarryStacks
     /\ \E j \in 1..Len(InCarries) :
          /\ WithContent = {j}
          /\ Attr(InCarries[j], "location") \in {"", "n"}
          /\ DigitUnder(j) = 2) =>
    LET cells == Elems(Head(OutRows))
        decorated == {i \in 1..Len(cells) : Tags(cells[i]) \cap Scripted # {}}
        j == CHOOSE k \in WithContent : TRUE
    IN /\ Len(OutRows) = 1
       /\ \E i \in 1..Len(cells) :
            /\ decorated = {i}
            /\ cells[i].kids =
                 <<E("mover", {},
                     <<Mn(<<InDigits[2]>>),
                       E("mpadded", {<<"width", "0em">>, <<"lspace", "-0.5width">>},
                         InCarries[j].kids)>>)>>
       /\ \A i \in 1..Len(cells) :
            i \notin decorated =>
              cells[i].kids = <<>> \/ \E k \in 1..Len(InDigits) : cells[i].kids = <<Mn(<<InDigits[k]>>)>>

\* C6: for the same 1-digit divisor, 1-digit quotient and 2-row dividend, the
\* output of each of the nine named longdivstyle values differs from the
\* output of every other one and from the output of the fallback of an absent
\* style.
C6_StylesDiffer ==
  (IsLongDiv /\ InArgs \in TwoRowKids) =>
    \A st \in (Styles \cup {""}) \ {InStyle} :
      transform(LongDiv(st, InArgs)) # args.data

\* how often character c occurs in a tree
Occurrences(n, c) == Len(SelectSeq(StringValue(n), LAMBDA x : x = c))
Digits == {"0", "1", "2", "3", "4", "5", "6", "7", "8", "9"}

\* C10: an mlongdiv with 0, 1 or 2 children, in every longdivstyle, is
\* transformed to a defined output to which a missing argument contributes no
\* nodes: the output is a div over math, its digits are those of the children
\* present, and no elementary-math element is left.
C10_MissingArguments ==
  (IsLongDiv /\ Len(InArgs) < 3) =>
    /\ args.data.tag = "div"
    /\ OutMath.tag = "math"
    /\ \A c \in Digits : Occurrences(args.data, c) = Occurrences(given.data, c)
    /\ Tags(args.data) \cap ElementaryMath = {}

\* a long division of a divisor alone was transformed, in a named style
C10_Witness ==
  /\ IsLongDiv
  /\ InStyle = "stackedleftlinetop"
  /\ InArgs = <<Mn(<<"3">>)>>
  /\ Occurrences(args.data, "3") = 1
  /\ "mtable" \in Tags(args.data)

\* the tree inside the right-to-left row handed to the filter, and what the
\* row was mirrored to
InMirrored == Head(Elems(Head(InBody)))
OutMirrored == Elems(Head(Elems(OutMath)))

\* C4 as stated: Mirror is an involution on trees built from the fence
\* attributes open/close, the listed text substitutions and the script
\* elements msub, msup, msubsup, mmultiscripts: mirroring the mirrored tree
\* gives back the original tree.
C4_MirrorInvolution ==
  (Transformed /\ given.data \in RtlInputs) =>
    RtlAll(OutMirrored, GivenCtx) = <<InMirrored>>

\* C4 amended: mirroring twice restores the fence attributes and the listed
\* text characters, not the tree: the attribute rules applied to the mirror of
\* an element with open/close attributes give back its attributes, and the
\* text rule applied to the mirrored text of an element give back its text.
C4_SubstitutionsInvolutive ==
  (Transformed /\ given.data \in RtlInputs) =>
    LET x == InMirrored
        o == Head(OutMirrored)
    IN /\ (x.attrs # {} /\ \A p \in x.attrs : p[1] \in {"open", "close"}) =>
            /\ o.attrs = RtlAttrs(x)
            /\ RtlAttrs(o) = x.attrs
       /\ (Len(x.kids) = 1 /\ IsText(Head(x.kids))) =>
            /\ Len(o.kids) = 1
            /\ IsText(Head(o.kids))
            /\ Head(Head(o.kids).text) = " "
            /\ RtlText(Tail(Head(o.kids).text)) = Head(x.kids).text

\* open="(" close="]" was mirrored to open="[" close=")"
C4_Witness ==
  /\ Transformed
  /\ given.data \in RtlInputs
  /\ InMirrored.attrs = {<<"open", "(">>, <<"close", "]">>}
  /\ Head(OutMirrored).attrs = {<<"open", "[">>, <<"close", ")">>}

\* the rows of the stack handed to the filter
InRows == Elems(Head(InBody))
\* a cell that holds just the digit d
PlainCell(cell, d) == cell.tag = "mtd" /\ cell.kids = <<Mn(<<d>>)>>
\* a cell that holds the digit d under the content of carry entry e
CarriedCell(cell, d, e) ==
  /\ cell.tag = "mtd"
  /\ cell.kids = <<E("mover", {},
                     <<Mn(<<d>>),
                       E("mpadded", {<<"width", "0em">>, <<"lspace", "-0.5width">>}, e.kids)>>)>>
\* row is the numeral x with the entries of the carry row cs over its digits
RowCarrying(row, x, cs) ==
  LET cells == Elems(row)
      ds == StringValue(x)
  IN /\ Len(cells) = Len(ds)
     /\ \A k \in 1..Len(ds) :
          IF cs[k].tag = "mscarry" /\ cs[k].kids # <<>>
          THEN CarriedCell(cells[k], ds[k], cs[k])
          ELSE PlainCell(cells[k], ds[k])
\* row is the numeral x with no decoration
RowPlain(row, x) ==
  LET cells == Elems(row)
      ds == StringValue(x)
  IN /\ Len(cells) = Len(ds)
     /\ \A k \in 1..Len(ds) : PlainCell(cells[k], ds[k])

StackCtx == Down(GivenCtx, Head(InBody))
\* the rows of variable t that mode mstack1 makes of the first row of the stack
FirstRows == mstack1(Head(InRows), 0, StackCtx)
\* the anchor the specification gives a numeral of text mn with inherited
\* offset p under alignment a and decimal separator d
NumeralAnchor(a, p, mn, d) ==
  CASE a = "right" -> p + Len(mn)
    [] a = "decimalpoint" /\ ~ Contains(mn, d) -> p + Len(mn)
    [] a = "decimalpoint" /\ Contains(mn, d) -> p + LenBefore(mn, d)
    [] a = "center" -> (p + Len(mn) + 1) \div 2
    [] a = "left" -> p

\* C12: the row that mode mstack1 makes of a numeral with inherited offset p
\* and normalized text of length len has the anchor p+len under right
\* alignment and under decimalpoint alignment without a separator, p + the
\* number of characters before the separator under decimalpoint alignment
\* with a separator, round((p+len)/2) under center alignment, and p under
\* left alignment.
C12_NumeralAnchor ==
  (Transformed /\ given.data \in AnchorStacks) =>
    LET group == Head(InRows)
        mn == NormalizeSpace(StringValue(Head(Elems(group))))
    IN Attr(Head(FirstRows), "l") =
         Str(NumeralAnchor(Align(StackCtx), SumAttr(group, "position"), mn, Dp(StackCtx)))

\* the stack of a math element that holds one, after any other children
GivenStack == InBody[Len(InBody)]
\* the table the transform made of that stack
OutTable == Elems(OutMath)[Len(InBody)]

\* C13: a numeral whose normalized text has n characters is lowered to
\* exactly n cells, the k-th cell holding the k-th character, for every n
\* and every size of the document around it.
C13_OneCellPerCharacter ==
  (Transformed /\ given.data \in LoneNumerals) =>
    /\ Len(Elems(OutTable)) = 1
    /\ RowPlain(Head(Elems(OutTable)), Head(Elems(GivenStack)))

\* the msgroup of a stack of LineStacks, its line, and the row of variable t
\* that mode mstack1 makes of the line
LineGroup == InRows[2]
GivenLine == Head(Elems(LineGroup))
LineRow == Head(mstack1(LineGroup, 0, StackCtx))
\* a length is declared and is not zero
Declared(line) == Attr(line, "length") # "" /\ Num(Attr(line, "length")) # 0

\* C14 as stated: the anchor of a line row with inherited offset p is
\* p + its declared length whenever a non-zero length is declared, under
\* every alignment, and is the fill-to-max marker exactly when the length is
\* absent or zero.
C14_LineAnchorEveryAlignment ==
  (Transformed /\ given.data \in LineStacks) =>
    Attr(LineRow, "l") =
      IF Declared(GivenLine)
      THEN Str(SumAttr(LineGroup, "position") + Num(Attr(GivenLine, "length")))
      ELSE "*"

\* C14 amended: the anchor of a line row with inherited offset p and a
\* non-zero declared length is p + that length under right and decimalpoint
\* alignment (the alignment of a stack that names none) and p under left and
\* center alignment; it is the fill-to-max marker exactly when the length is
\* absent or zero.
C14_LineAnchor ==
  (Transformed /\ given.data \in LineStacks) =>
    Attr(LineRow, "l") =
      CASE ~ Declared(GivenLine) -> "*"
        [] Declared(GivenLine) /\ Align(StackCtx) \in {"right", "decimalpoint"} ->
             Str(SumAttr(LineGroup, "position") + Num(Attr(GivenLine, "length")))
        [] Declared(GivenLine) /\ Align(StackCtx) \in {"left", "center"} ->
             Str(SumAttr(LineGroup, "position"))

\* a center-aligned stack of 123 over a line of length 2 shifted by 1: the
\* line row is anchored at 1, and the transform underlined the second and
\* third digit
C14_Witness ==
  /\ Transformed
  /\ given.data \in LineStacks
  /\ Align(StackCtx) = "center"
  /\ Attr(GivenLine, "length") = "2"
  /\ SumAttr(LineGroup, "position") = 1
  /\ Attr(LineRow, "l") = "1"
  /\ Len(OutRows) = 1
  /\ PlainCell(Elems(OutRows[1])[1], "1")
  /\ Head(Elems(Elems(OutRows[1])[2])).tag = "mpadded"
  /\ Head(Elems(Elems(OutRows[1])[3])).tag = "mpadded"

\* the size the specification gives the underline of a line
Thickness(line) ==
  CASE Attr(line, "mslinethickness") = "thin" -> "0.1em"
    [] Attr(line, "mslinethickness") = "medium" -> "0.15em"
    [] Attr(line, "mslinethickness") = "thick" -> "0.2em"
    [] Attr(line, "mslinethickness") = "" -> "0.15em"
    [] OTHER -> Attr(line, "mslinethickness")
\* the stack handed to the filter with the thickness th on its line
WithThickness(th) ==
  Math(<<E("mstack", {},
           <<InRows[1],
             E("msline", th \cup {a \in InRows[2].attrs : a[1] = "length"}, <<>>)>>)>>)
\* a cell with the bottom-border decoration
Underlined(cell) ==
  /\ Len(Elems(cell)) = 1
  /\ Head(Elems(cell)).tag = "mpadded"
  /\ Head(Elems(Head(Elems(cell)))).tag = "menclose"
\* only the cells of the numeral row inside the span of the line are
\* underlined: the last length cells, all cells when the line declares no
\* length
UnderlinedInSpan ==
  LET cells == Elems(OutRows[1])
      line == InRows[2]
  IN /\ Len(OutRows) = 1
     /\ Len(cells) = 3
     /\ \A k \in 1..3 :
          Underlined(cells[k]) <=>
            (~ Declared(line) \/ k > 3 - Num(Attr(line, "length")))

\* C15: the underline of a content row that a line row directly follows is
\* sized by the thickness of the line (thin 0.1em, medium 0.15em, thick
\* 0.2em, a literal value, 0.15em when absent): stacks that differ only in a
\* thickness of another size have different outputs; and only the cells
\* inside the span of the line are underlined.
C15_UnderlineSizedByThickness ==
  (Transformed /\ given.data \in ThickStacks) =>
    /\ UnderlinedInSpan
    /\ \A th \in Thicknesses :
         Thickness(E("msline", th, <<>>)) # Thickness(InRows[2]) =>
           transform(WithThickness(th)) # args.data

\* r is what the generic rule of mode rtl is said to make of element n: the
\* tag and the attributes of n with the marker dir="ltr" in the place of any
\* dir, over the mirrored element children of n in reversed order; the text
\* of a leaf is the mirrored text of n
RECURSIVE MarkedReversed(_, _)
MarkedReversed(r, n) ==
  LET rs == Elems(r)
      ns == Elems(n)
  IN /\ r.tag = n.tag
     /\ r.attrs = {a \in n.attrs : a[1] # "dir"} \cup {<<"dir", "ltr">>}
     /\ Len(rs) = Len(ns)
     /\ \A i \in 1..Len(ns) : MarkedReversed(rs[i], ns[Len(ns) + 1 - i])
     /\ ns = <<>> => NormalizeSpace(StringValue(r)) = RtlText(StringValue(n))

\* C16: every element the generic rule of mode rtl emits carries its
\* original attributes and the marker dir="ltr", also when the element has
\* no attributes in the input, and its children are the mirrored original
\* children in reversed order.
C16_MarkedAndReversed ==
  (Transformed /\ given.data \in GenericRows) =>
    /\ Len(Elems(OutMath)) = 1
    /\ MarkedReversed(Head(Elems(OutMath)), Head(InBody))

RECURSIVE Leaves(_)
\* the leaf elements mi, mn, mo of a tree in document order, each as its
\* name and its text without the surrounding spaces
Leaves(n) ==
  CASE IsText(n) -> <<>>
    [] IsElem(n) /\ n.tag \in {"mi", "mn", "mo"} -> <<<<n.tag, NormalizeSpace(StringValue(n))>>>>
    [] OTHER -> Cat([i \in 1..Len(n.kids) |-> Leaves(n.kids[i])])
\* how often leaf l occurs in a sequence of leaves
LeafCount(ls, l) == Len(SelectSeq(ls, LAMBDA x : x = l))
\* every leaf of the right-to-left row handed to the filter occurs, mirrored,
\* exactly once in the output
NoLeafLost ==
  LET in == Leaves(Head(InBody))
      out == Leaves(OutMath)
  IN \A k \in 1..Len(in) :
       LeafCount(out, <<in[k][1], RtlText(in[k][2])>>) = LeafCount(in, in[k])

\* C17: mirroring drops no content: every leaf element (mi, mn, mo) of a
\* subtree rooted at an element with dir="rtl" occurs, mirrored, exactly once
\* in the output, for every container mode rtl handles, an msqrt with two
\* or more children among them.
C17_MirrorDropsNothing ==
  (Transformed /\ given.data \in ContainerRows \cup RtlInputs \cup GenericRows) =>
    NoLeafLost

====
